---- MODULE Spec2Model ----
(***************************************************************************)
(* integrate_detector_signal (src/integrate_detector_signal.py) as a state *)
(* machine: one call of the function, stepping through its sections        *)
(*   Preprocess (line 43), GaussianFit (45-46, body 26-38),                *)
(*   FindArea (48-54), EstimateUncertainty (65-75), Return (93).           *)
(*                                                                         *)
(* Numbers.  A sample is a record [nan, v]: NaN, or the integer v.  The    *)
(* fitted width and location, the guesses and the bounds are exact         *)
(* rationals [n, d], d > 0 (d = 0 stands for NaN).  Quantities whose value *)
(* the model does not track (means, standard deviations, areas) are float  *)
(* classes:                                                                *)
(*   "nan"  a NaN,  "zero" the exact 0.0 of an empty sum,                  *)
(*   "num"  any other float that is not NaN.                               *)
(* The call is modelled with plot = False (lines 79-89 only draw).         *)
(***************************************************************************)
EXTENDS Integers, Sequences, FiniteSets, TLC

VARIABLES
    arg_time, arg_signal,       \* the caller's two sequences (never written)
    time_type, signal_type,     \* "ndarray" or "list" (docstring, lines 3-4)
    arrival_time_guess, signal_width_guess, background_guess,  \* <<>> is None
    pc,                         \* section about to run, "done" or "raised"
    err,                        \* the exception that ended the call, or "none"
    err_at,                     \* the section that raised it, or "none"
    time, signal,               \* the locals time, signal (rebound at line 43)
    p0, bounds,                 \* what _gaussian_fit hands to curve_fit
    signal_width, arrival_time, \* fit_params[1:3]
    region_of_interest_indeces, \* the boolean mask of line 48
    time_of_interest, signal_of_interest,
    time_background, signal_background,
    background, background_SE, area,
    roi_list,                   \* the distinct sweep masks of line 67
    roi_left,                   \* the mask of line 71
    area_SE,
    result                      \* the returned pair, or <<>>

vars == <<arg_time, arg_signal, time_type, signal_type, arrival_time_guess,
          signal_width_guess, background_guess, pc, err, err_at, time, signal,
          p0, bounds, signal_width, arrival_time, region_of_interest_indeces,
          time_of_interest, signal_of_interest, time_background,
          signal_background, background, background_SE, area, roi_list,
          roi_left, area_SE, result>>

args == <<arg_time, arg_signal, time_type, signal_type, arrival_time_guess,
          signal_width_guess, background_guess>>
fit_vars == <<p0, bounds, signal_width, arrival_time>>
area_vars == <<region_of_interest_indeces, time_of_interest,
               signal_of_interest, time_background, signal_background,
               background, background_SE, area>>
unc_vars == <<roi_list, roi_left, area_SE>>

(***************************************************************************)
(* Bounds of the model.                                                    *)
(***************************************************************************)
\* longest input sequence of Spec
MaxLen == 3
\* the sample times of SpecTrace's traces in any order are 0..MaxTime
MaxTime == 2
\* the sample times of SpecTrace's ascending traces are 0..MaxSorted
MaxSorted == 4

(***************************************************************************)
(* Samples and rationals.                                                  *)
(***************************************************************************)
NaN == [nan |-> TRUE, v |-> 0]
Num(x) == [nan |-> FALSE, v |-> x]
isnan(x) == x.nan

R(a, b) == [n |-> a, d |-> b]
\* d = 0 is the NaN of 0/0 (the mean of an empty array); every comparison
\* with it is False and arithmetic propagates it
RLt(a, b) == a.d > 0 /\ b.d > 0 /\ a.n * b.d < b.n * a.d
RLe(a, b) == a.d > 0 /\ b.d > 0 /\ a.n * b.d <= b.n * a.d
RAdd(a, b) == R(a.n * b.d + b.n * a.d, a.d * b.d)
RSub(a, b) == R(a.n * b.d - b.n * a.d, a.d * b.d)
RMul(a, b) == R(a.n * b.n, a.d * b.d)

\* x > r and x < r on a float sample: every comparison with NaN is False
SampleGt(x, r) == ~x.nan /\ r.d > 0 /\ r.n < x.v * r.d
SampleLt(x, r) == ~x.nan /\ r.d > 0 /\ x.v * r.d < r.n

Vals(arr) == [i \in 1..Len(arr) |-> arr[i].v]
HasNaN(arr) == \E i \in 1..Len(arr) : isnan(arr[i])
ArrMin(arr) == CHOOSE x \in {arr[i].v : i \in 1..Len(arr)} :
                   \A i \in 1..Len(arr) : x <= arr[i].v
ArrMax(arr) == CHOOSE x \in {arr[i].v : i \in 1..Len(arr)} :
                   \A i \in 1..Len(arr) : x >= arr[i].v

(***************************************************************************)
(* Line 43: time, signal = [np.array(array[np.logical_and(~np.isnan(time), *)
(* ~np.isnan(signal))]) for array in [time, signal]]                       *)
(***************************************************************************)
\* ~np.isnan(arr)
NotNaN(arr) == [i \in 1..Len(arr) |-> ~isnan(arr[i])]

\* numpy broadcasting of two 1-D shapes: equal, or one of them is 1
Broadcastable(a, b) == Len(a) = Len(b) \/ Len(a) = 1 \/ Len(b) = 1

\* np.logical_and(a, b) on broadcastable 1-D boolean arrays
logical_and(a, b) ==
    LET n == IF Len(a) = Len(b) THEN Len(a)
             ELSE IF Len(a) = 1 THEN Len(b) ELSE Len(a)
        at(x, i) == IF Len(x) = n THEN x[i] ELSE x[1]
    IN  [i \in 1..n |-> at(a, i) /\ at(b, i)]

\* (a slip: a mask shorter than the array is let through)
BoolIndexOk_short(arr, mask) == Len(mask) <= Len(arr)

\* arr[mask] is defined on an ndarray whose length is the mask's
BoolIndexOk(arr, mask) == Len(arr) = Len(mask)

\* (a slip: the selected elements come out last-first)
BoolIndex_reversed(arr, mask) ==
    LET F[i \in 0..Len(mask)] ==
            IF i = 0 THEN <<>>
            ELSE IF mask[i] THEN <<arr[i]>> \o F[i - 1] ELSE F[i - 1]
    IN  F[Len(mask)]

\* arr[mask] on an ndarray: the elements at the True positions, in order
BoolIndex(arr, mask) ==
    LET F[i \in 0..Len(mask)] ==
            IF i = 0 THEN <<>>
            ELSE IF mask[i] THEN Append(F[i - 1], arr[i]) ELSE F[i - 1]
    IN  F[Len(mask)]

\* ~mask
Not(mask) == [i \in 1..Len(mask) |-> ~mask[i]]

\* the exception line 43 raises, or "none"
PreprocessError(t, tt, s, st) ==
    IF ~Broadcastable(t, s) THEN "ValueError"
    ELSE LET m == logical_and(NotNaN(t), NotNaN(s))
         IN  IF tt = "list" THEN "TypeError"
             ELSE IF ~BoolIndexOk(t, m) THEN "IndexError"
             ELSE IF st = "list" THEN "TypeError"
             ELSE IF ~BoolIndexOk(s, m) THEN "IndexError"
             ELSE "none"

Preprocess ==
    /\ pc = "preprocess"
    /\ LET e == PreprocessError(time, time_type, signal, signal_type)
           m == logical_and(NotNaN(time), NotNaN(signal))
       IN  IF e # "none"
           THEN /\ pc' = "raised"
                /\ err' = e
                /\ err_at' = "preprocess"
                /\ UNCHANGED <<time, signal>>
           ELSE /\ pc' = "fit"
                /\ err' = err
                /\ err_at' = err_at
                /\ time' = BoolIndex(time, m)
                /\ signal' = BoolIndex(signal, m)
    /\ UNCHANGED <<args, fit_vars, area_vars, unc_vars, result>>

(***************************************************************************)
(* _gaussian_fit, lines 26-38, called at line 45.                          *)
(***************************************************************************)
\* np.median(arr) of a NaN-free non-empty array
Median(arr) ==
    LET srt == SortSeq(Vals(arr), LAMBDA a, b : a < b)
        n == Len(arr)
    IN  IF n % 2 = 1 THEN R(srt[(n + 1) \div 2], 1)
        ELSE R(srt[n \div 2] + srt[n \div 2 + 1], 2)

\* np.mean(np.diff(arr)): the sum of the consecutive differences over their
\* number; 0/0 (NaN) for a single sample
MeanDiff(arr) ==
    LET S[i \in 1..Len(arr)] ==
            IF i = 1 THEN 0 ELSE S[i - 1] + (arr[i].v - arr[i - 1].v)
    IN  R(S[Len(arr)], Len(arr) - 1)

\* lines 26-27, 28-29, 30-31, 32: the guesses, from context when None
ArrivalTimeGuess(t, g) == IF g = <<>> THEN Median(t) ELSE g[1]
SignalWidthGuess(t, g) ==
    IF g = <<>> THEN R(ArrMax(t) - ArrMin(t), 10) ELSE g[1]
BackgroundGuess(s, g) == IF g = <<>> THEN R(ArrMin(s), 1) ELSE g[1]
AmplitudeGuess(s) == R(ArrMax(s) - ArrMin(s), 1)

\* line 35: p0 = [amplitude_guess, signal_width_guess, arrival_time_guess,
\* background_guess]
InitialGuess(t, s, ag, wg, bg) ==
    [amplitude |-> AmplitudeGuess(s), sigma |-> SignalWidthGuess(t, wg),
     location |-> ArrivalTimeGuess(t, ag),
     background |-> BackgroundGuess(s, bg)]

\* line 33: the box bounds; the background's are -inf and +inf and are left
\* out, every value lies between them
Params == {"amplitude", "sigma", "location"}
FitBounds(t, s) ==
    [lo |-> [amplitude |-> R(0, 1), sigma |-> MeanDiff(t),
             location |-> R(ArrMin(t), 1)],
     hi |-> [amplitude |-> R(10 * (ArrMax(s) - ArrMin(s)), 1),
             sigma |-> R(ArrMax(t) - ArrMin(t), 1),
             location |-> R(ArrMax(t), 1)]]

\* curve_fit -> least_squares: x0 lies in the box, lb <= x0 <= ub
InBounds(x0, b) ==
    \A k \in Params : RLe(b.lo[k], x0[k]) /\ RLe(x0[k], b.hi[k])

\* least_squares refuses a box with some lb >= ub
BoundsOk(b) == \A k \in Params : ~(RLe(b.hi[k], b.lo[k]))

\* the (width, location) pairs a bounded fit can return: inside the box
\* (the model lets it return the multiples of 1/4 there)
MaxT == IF MaxTime > MaxSorted THEN MaxTime ELSE MaxSorted
FitGrid == {R(k, 4) : k \in (0 - 4 * MaxT)..(4 * MaxT)}
FitOutcomes(b) ==
    {f \in [sigma : FitGrid, location : FitGrid] :
        /\ RLe(b.lo.sigma, f.sigma) /\ RLe(f.sigma, b.hi.sigma)
        /\ RLe(b.lo.location, f.location) /\ RLe(f.location, b.hi.location)}

\* the number of fit parameters: amplitude, sigma, location, background
NParams == 4

\* curve_fit of the newer SciPy releases refuses fewer data points than
\* parameters (a single point excepted); the older ones attempt the fit
TooFewPoints(s) == Len(s) # 1 /\ Len(s) < NParams

GaussianFit ==
    /\ pc = "fit"
    /\ IF Len(time) = 0 \/ Len(signal) = 0 \/ HasNaN(time) \/ HasNaN(signal)
       THEN \* np.max of an empty array (line 29 or 32), or curve_fit's
            \* check_finite, raises
            /\ pc' = "raised"
            /\ err' = "ValueError"
            /\ err_at' = "fit"
            /\ UNCHANGED fit_vars
       ELSE LET x0 == InitialGuess(time, signal, arrival_time_guess,
                                   signal_width_guess, background_guess)
                b == FitBounds(time, signal)
                feasible == BoundsOk(b) /\ InBounds(x0, b)
            IN  /\ p0' = x0
                /\ bounds' = b
                /\ \/ /\ TooFewPoints(signal)
                      /\ pc' = "raised"
                      /\ err' = "TypeError"
                      /\ err_at' = "fit"
                      /\ UNCHANGED <<signal_width, arrival_time>>
                   \/ /\ ~feasible
                      /\ pc' = "raised"
                      /\ err' = "ValueError"
                      /\ err_at' = "fit"
                      /\ UNCHANGED <<signal_width, arrival_time>>
                   \/ \* the solver did not converge
                      /\ feasible
                      /\ pc' = "raised"
                      /\ err' = "RuntimeError"
                      /\ err_at' = "fit"
                      /\ UNCHANGED <<signal_width, arrival_time>>
                   \/ /\ feasible
                      /\ \E f \in FitOutcomes(b) :
                            /\ pc' = "find_area"
                            /\ err' = err
                            /\ err_at' = err_at
                            /\ signal_width' = f.sigma
                            /\ arrival_time' = f.location
    /\ UNCHANGED <<args, time, signal, area_vars, unc_vars, result>>

(***************************************************************************)
(* Find Area, lines 48-54.                                                 *)
(***************************************************************************)
\* np.logical_and(t > at - n_sigma*w, t < at + n_sigma*w)
\* with the denominators cleared: at = c/D and n_sigma*w = h/D, D > 0 unless
\* one of them is NaN
Within(t, at, w, n_sigma) ==
    LET D == at.d * n_sigma.d * w.d
        c == at.n * n_sigma.d * w.d
        h == n_sigma.n * w.n * at.d
    IN  [i \in 1..Len(t) |->
            ~t[i].nan /\ D > 0 /\ c - h < t[i].v * D /\ t[i].v * D < c + h]

\* (a slip: >= and <= for > and <)
ROIIndices_closed(t, at, w) ==
    LET lo == RSub(at, RMul(R(35, 10), w))
        hi == RAdd(at, RMul(R(35, 10), w))
    IN  [i \in 1..Len(t) |-> ~SampleLt(t[i], lo) /\ ~SampleGt(t[i], hi)]

\* line 48: region_of_interest_indeces, 3.5 sigma on both sides
ROIIndices(t, at, w) == Within(t, at, w, R(35, 10))

\* (a slip: the spread of no samples taken to be a number)
StdClass_number(arr) == "num"

\* np.mean(arr), np.std(arr): NaN for an empty array
MeanClass(arr) == IF Len(arr) = 0 THEN "nan" ELSE "num"
StdClass(arr) == IF Len(arr) = 0 THEN "nan" ELSE "num"
\* x / np.sqrt(n): NaN stays NaN (and nan/0 is NaN)
OverSqrt(x, n) == IF x = "nan" THEN "nan" ELSE "num"
\* arr - x, elementwise
MinusClass(x) == IF x = "nan" THEN "nan" ELSE "num"

\* two neighbouring samples at the same time: Simpson's weights divide by
\* their spacing
ZeroSpacing(ts) == \E i \in 1..(Len(ts) - 1) : ts[i].v = ts[i + 1].v

\* simps(y, ts), y of class yc, on Len(ts) >= 1 samples: one sample is the
\* empty sum 0.0; a NaN integrand gives NaN; a zero spacing among three or
\* more samples gives inf - inf or 0 * inf for some sample values
Simps(yc, ts) ==
    IF Len(ts) = 1 THEN {"zero"}
    ELSE IF yc = "nan" THEN {"nan"}
    ELSE IF Len(ts) >= 3 /\ ZeroSpacing(ts) THEN {"num", "nan"}
    ELSE {"num"}

\* simps indexes x[-1]: it raises on empty arrays
SimpsRaises(ts) == Len(ts) = 0

FindArea ==
    /\ pc = "find_area"
    /\ LET roi == ROIIndices(time, arrival_time, signal_width)
           toi == BoolIndex(time, roi)
           sb == BoolIndex(signal, Not(roi))
           bg == MeanClass(sb)
       IN  /\ region_of_interest_indeces' = roi
           /\ time_of_interest' = toi
           /\ signal_of_interest' = BoolIndex(signal, roi)
           /\ time_background' = BoolIndex(time, Not(roi))
           /\ signal_background' = sb
           /\ background' = bg
           /\ background_SE' = OverSqrt(StdClass(sb), Len(sb))
           /\ IF SimpsRaises(toi)
              THEN /\ pc' = "raised"
                   /\ err' = "IndexError"
                   /\ err_at' = "find_area"
                   /\ area' = area
              ELSE /\ pc' = "uncertainty"
                   /\ err' = err
                   /\ err_at' = err_at
                   /\ area' \in Simps(MinusClass(bg), toi)
    /\ UNCHANGED <<args, time, signal, fit_vars, unc_vars, result>>

(***************************************************************************)
(* Estimate Uncertainty, lines 65-75.                                      *)
(***************************************************************************)
\* the number of half-widths of the sweep
SweepCount == 100
\* (a slip: the sweep's end points swapped)
NSigma_swapped(k) ==
    R(45 * (SweepCount - 1) + k * (32 - 45), 10 * (SweepCount - 1))

\* np.linspace(3.2, 4.5, 100)[k]: start + k * (stop - start) / (num - 1), in
\* tenths over the common denominator num - 1
NSigma(k) == R(32 * (SweepCount - 1) + k * (45 - 32), 10 * (SweepCount - 1))

\* line 67: the mask of the k-th n_sigma of the sweep, k = 0..99
SweepMask(t, at, w, k) == Within(t, at, w, NSigma(k))

\* np.unique(..., axis=0): the distinct masks
RoiList(t, at, w) == {SweepMask(t, at, w, k) : k \in 0..(SweepCount - 1)}

\* (a slip: the slice's upper end on the far side of the peak)
RoiLeft_plus(t, at, w) ==
    LET hi == RAdd(at, RMul(R(35, 10), w))
        lo == RSub(at, RMul(R(3 * 35, 10), w))
    IN  [i \in 1..Len(t) |-> SampleLt(t[i], hi) /\ SampleGt(t[i], lo)]

\* line 71: roi_left, from 3*3.5 to 3.5 sigma below the arrival time
RoiLeft(t, at, w) ==
    LET hi == RSub(at, RMul(R(35, 10), w))
        lo == RSub(at, RMul(R(3 * 35, 10), w))
    IN  [i \in 1..Len(t) |-> SampleLt(t[i], hi) /\ SampleGt(t[i], lo)]

\* np.std of the sweep's areas (line 69): NaN once one of them is
SweepStd(t, s, bg, rl) ==
    {"nan" : r \in {r \in rl : "nan" \in Simps(MinusClass(bg), BoolIndex(t, r))}}
    \cup (IF \A r \in rl : Simps(MinusClass(bg), BoolIndex(t, r)) # {"nan"}
          THEN {"num"} ELSE {})

\* np.linalg.norm (line 75): NaN once one component is
Norm(xs) == IF "nan" \in xs THEN "nan" ELSE "num"

EstimateUncertainty ==
    /\ pc = "uncertainty"
    /\ LET rl == RoiList(time, arrival_time, signal_width)
           left == RoiLeft(time, arrival_time, signal_width)
           noise == OverSqrt(StdClass(BoolIndex(signal, left)),
                             Len(signal_of_interest))
       IN  /\ roi_list' = rl
           /\ IF \E r \in rl : SimpsRaises(BoolIndex(time, r))
              THEN /\ pc' = "raised"
                   /\ err' = "IndexError"
                   /\ err_at' = "uncertainty"
                   /\ UNCHANGED <<roi_left, area_SE>>
              ELSE /\ pc' = "return"
                   /\ err' = err
                   /\ err_at' = err_at
                   /\ roi_left' = left
                   /\ \E bgse \in Simps(background_SE, time_of_interest),
                         nsig \in SweepStd(time, signal, background, rl) :
                         area_SE' = Norm({bgse, nsig, noise})
    /\ UNCHANGED <<args, time, signal, fit_vars, area_vars, result>>

\* line 93
Return ==
    /\ pc = "return"
    /\ pc' = "done"
    /\ result' = <<area, area_SE>>
    /\ UNCHANGED <<args, err, err_at, time, signal, fit_vars, area_vars,
                   unc_vars>>

(***************************************************************************)
(* The calls the model explores.                                           *)
(***************************************************************************)
SeqsUpTo(S, n) == UNION {[1..k -> S] : k \in 0..n}
Types == {"ndarray", "list"}
NoGuess == [arrival |-> <<>>, width |-> <<>>, background |-> <<>>]
AllGuess == [arrival |-> <<R(1, 1)>>, width |-> <<R(1, 1)>>,
             background |-> <<R(0, 1)>>]

Fresh ==
    /\ pc = "preprocess"
    /\ err = "none"
    /\ err_at = "none"
    /\ time = arg_time
    /\ signal = arg_signal
    /\ p0 = <<>>
    /\ bounds = <<>>
    /\ signal_width = R(0, 0)
    /\ arrival_time = R(0, 0)
    /\ region_of_interest_indeces = <<>>
    /\ time_of_interest = <<>>
    /\ signal_of_interest = <<>>
    /\ time_background = <<>>
    /\ signal_background = <<>>
    /\ background = "unset"
    /\ background_SE = "unset"
    /\ area = "unset"
    /\ roi_list = {}
    /\ roi_left = <<>>
    /\ area_SE = "unset"
    /\ result = <<>>

WithGuesses(G) ==
    \E g \in G : /\ arrival_time_guess = g.arrival
                 /\ signal_width_guess = g.width
                 /\ background_guess = g.background

\* any two short sequences of NaN, 0 and 1, as arrays or lists
Init ==
    /\ arg_time \in SeqsUpTo({NaN, Num(0), Num(1)}, MaxLen)
    /\ arg_signal \in SeqsUpTo({NaN, Num(0), Num(1)}, MaxLen)
    /\ time_type \in Types
    /\ signal_type \in Types
    /\ WithGuesses({NoGuess, AllGuess})
    /\ Fresh

\* a flat signal, or a unit pulse at the first sample
Pulse(n) == [i \in 1..n |-> IF i = 1 THEN Num(1) ELSE Num(0)]
Flat(n) == [i \in 1..n |-> Num(0)]

\* strictly ascending times
Ascending(t) == \A i \in 1..(Len(t) - 1) : t[i].v < t[i + 1].v

\* NaN-free arrays: the samples every SciPy release wants for the four
\* parameters, at times 0..MaxTime in any order; or up to MaxSorted + 1
\* samples at ascending times 0..MaxSorted
TraceTimes ==
    [1..NParams -> {Num(x) : x \in 0..MaxTime}]
    \cup {t \in SeqsUpTo({Num(x) : x \in 0..MaxSorted}, MaxSorted + 1) :
             Ascending(t)}

InitTrace ==
    /\ arg_time \in TraceTimes
    /\ arg_signal \in {Pulse(Len(arg_time)), Flat(Len(arg_time))}
    /\ time_type = "ndarray"
    /\ signal_type = "ndarray"
    /\ WithGuesses({NoGuess, AllGuess})
    /\ Fresh

Next == Preprocess \/ GaussianFit \/ FindArea \/ EstimateUncertainty \/ Return

Spec == Init /\ [][Next]_vars
SpecTrace == InitTrace /\ [][Next]_vars

(***************************************************************************)
(* Properties.                                                             *)
(***************************************************************************)
\* the index-aligned pairs of t and s in which neither coordinate is NaN, in
\* the original order
Zip(t, s) == [i \in 1..Len(t) |-> <<t[i], s[i]>>]
BothDefined(pair) == ~isnan(pair[1]) /\ ~isnan(pair[2])
DefinedPairs(t, s) == SelectSeq(Zip(t, s), BothDefined)
Column(pairs, c) == [i \in 1..Len(pairs) |-> pairs[i][c]]

Preprocessed == pc # "preprocess"

\* C1: for every two input sequences of equal length, line 43 does not fail
\* and leaves in time and signal exactly the pairs (time[i], signal[i])
\* without a NaN, in the original order and pairing.
C1_CleanedIsDefinedPairs ==
    (Preprocessed /\ Len(arg_time) = Len(arg_signal)) =>
        /\ err_at # "preprocess"
        /\ time = Column(DefinedPairs(arg_time, arg_signal), 1)
        /\ signal = Column(DefinedPairs(arg_time, arg_signal), 2)

\* What does hold of line 43: the same, for two numpy arrays.
CleanedArraysAreDefinedPairs ==
    (/\ Preprocessed
     /\ Len(arg_time) = Len(arg_signal)
     /\ time_type = "ndarray"
     /\ signal_type = "ndarray") =>
        /\ err_at # "preprocess"
        /\ time = Column(DefinedPairs(arg_time, arg_signal), 1)
        /\ signal = Column(DefinedPairs(arg_time, arg_signal), 2)

NothingComputed ==
    /\ time = arg_time
    /\ signal = arg_signal
    /\ signal_width = R(0, 0)
    /\ arrival_time = R(0, 0)
    /\ background = "unset"
    /\ area = "unset"
    /\ area_SE = "unset"
    /\ roi_list = {}
    /\ result = <<>>

Partitioned == background # "unset"
\* line 67 has run
Swept == roi_list # {}
\* lines 71-75 have run
Estimated == area_SE # "unset"

T(i) == R(time[i].v, 1)
Below(n_sigma) == RSub(arrival_time, RMul(n_sigma, signal_width))
Above(n_sigma) == RAdd(arrival_time, RMul(n_sigma, signal_width))
Indices == 1..Len(time)
Subset(m1, m2) == \A i \in Indices : m1[i] => m2[i]
Count(mask) == Cardinality({i \in 1..Len(mask) : mask[i]})
Empty(mask) == \A i \in 1..Len(mask) : ~mask[i]

\* the trace put back together from its two parts along the mask
Unsplit(mask, in, out) ==
    LET F[i \in 0..Len(mask)] ==
            IF i = 0 THEN <<>>
            ELSE Append(F[i - 1],
                        IF mask[i]
                        THEN in[Count(SubSeq(mask, 1, i))]
                        ELSE out[i - Count(SubSeq(mask, 1, i))])
    IN  F[Len(mask)]

\* C3: a sample is in the region of interest iff its time lies strictly
\* between location - 3.5*width and location + 3.5*width; the region of
\* interest and the background are disjoint and together hold every sample of
\* the cleaned trace exactly once.
C3_ROIPartition ==
    Partitioned =>
        /\ Len(region_of_interest_indeces) = Len(time)
        /\ \A i \in Indices :
              region_of_interest_indeces[i] <=>
                  (RLt(Below(R(7, 2)), T(i)) /\ RLt(T(i), Above(R(7, 2))))
        /\ Len(time_of_interest) + Len(time_background) = Len(time)
        /\ Len(signal_of_interest) = Len(time_of_interest)
        /\ Len(signal_background) = Len(time_background)
        /\ Unsplit(region_of_interest_indeces, time_of_interest,
                   time_background) = time
        /\ Unsplit(region_of_interest_indeces, signal_of_interest,
                   signal_background) = signal

\* a sample exactly on the edge of the window, left to the background, next
\* to samples inside it
C3_Witness ==
    /\ Partitioned
    /\ \E i \in Indices :
          /\ T(i).n * Below(R(7, 2)).d = Below(R(7, 2)).n
          /\ ~region_of_interest_indeces[i]
    /\ Len(time_of_interest) >= 1
    /\ Len(time_background) >= 2

\* C4: when the background region is empty the call fails and returns no
\* (area, area_SE) pair.
C4_EmptyBackgroundFails ==
    (Partitioned /\ Len(signal_background) = 0 /\ pc \in {"done", "raised"})
        => (pc = "raised" /\ result = <<>>)

LeftSliceEmpty ==
    \A i \in Indices :
        ~(RLt(Below(R(21, 2)), T(i)) /\ RLt(T(i), Below(R(7, 2))))

\* C5: when the slice left of the region of interest (time strictly between
\* location - 10.5*width and location - 3.5*width) is empty, the call fails
\* or its standard error is NaN: it never returns a standard error that is a
\* number.
C5_EmptyNoiseSliceGivesNaN ==
    (Partitioned /\ LeftSliceEmpty) =>
        /\ Estimated => area_SE = "nan"
        /\ pc = "done" => result[2] = "nan"

\* a returned pair whose area is a number and whose standard error is NaN
\* for want of samples left of the window
C5_Witness ==
    /\ pc = "done"
    /\ LeftSliceEmpty
    /\ Len(time_background) > 0
    /\ result[1] = "num"
    /\ result[2] = "nan"

NonDecreasing(t) == \A i \in 1..(Len(t) - 1) : t[i].v <= t[i + 1].v

\* C6 as claimed: for every input trace, the times handed to the quadrature
\* (the 3.5 region of interest and every region of the sweep) are ascending.
C6_ROIAlwaysAscending ==
    /\ Partitioned => NonDecreasing(time_of_interest)
    /\ \A r \in roi_list : NonDecreasing(BoolIndex(time, r))

\* C6 as amended: the order of the trace is kept, nothing is sorted; when the
\* cleaned trace is ascending in time so are the times handed to the
\* quadrature.
C6_AscendingIsPreserved ==
    NonDecreasing(time) =>
        /\ Partitioned => NonDecreasing(time_of_interest)
        /\ \A r \in roi_list : NonDecreasing(BoolIndex(time, r))

\* an ascending trace with samples on both sides of the partition and two
\* regions in the sweep
C6_Witness ==
    /\ pc = "return"
    /\ NonDecreasing(time)
    /\ Len(time_of_interest) >= 2
    /\ Len(time_background) >= 1
    /\ Cardinality(roi_list) >= 2

FoundArea ==
    \/ pc \in {"uncertainty", "return", "done"}
    \/ pc = "raised" /\ err_at \in {"find_area", "uncertainty"}

\* C7: with fewer than 2 samples in the region of interest (none included),
\* selecting it and integrating over it raise nothing and the area is 0
\* (stated for the fits of positive width).
C7_DegenerateROIIntegratesToZero ==
    (FoundArea /\ signal_width.n > 0 /\ Len(time_of_interest) < 2) =>
        (err_at # "find_area" /\ area = "zero")

\* what does hold: one sample integrates to 0.0
OneSampleIntegratesToZero ==
    (FoundArea /\ Len(time_of_interest) = 1) =>
        (err_at # "find_area" /\ area = "zero")

FitCalled == pc \notin {"preprocess", "fit"} /\ err_at # "preprocess"
NonConstant(s) == \E i, j \in 1..Len(s) : s[i].v # s[j].v

\* C8: with no guesses given, the initial guess of _gaussian_fit lies within
\* the bounds it passes to the solver, for every cleaned trace with ascending
\* distinct times, at least 4 samples and a signal that is not constant.
C8_DefaultGuessInBounds ==
    (/\ FitCalled
     /\ arrival_time_guess = <<>>
     /\ signal_width_guess = <<>>
     /\ background_guess = <<>>
     /\ Len(time) >= 4
     /\ Ascending(time)
     /\ NonConstant(signal)) =>
        \A k \in Params : RLe(bounds.lo[k], p0[k]) /\ RLe(p0[k], bounds.hi[k])

\* the half-widths run from 3.2 up to 4.5
SweepRuns ==
    /\ RLe(NSigma(0), R(32, 10)) /\ RLe(R(32, 10), NSigma(0))
    /\ RLe(NSigma(SweepCount - 1), R(45, 10))
    /\ RLe(R(45, 10), NSigma(SweepCount - 1))
    /\ \A k \in 0..(SweepCount - 2) : RLe(NSigma(k), NSigma(k + 1))

\* C9: for a fitted width > 0 the sweep's masks grow with the half-width, the
\* 3.5 region of interest contains the 3.2 mask and lies in the 4.5 mask, and
\* between 1 and 100 distinct masks are integrated.
C9_SweepMasksNested ==
    (Swept /\ signal_width.n > 0) =>
        /\ LET M == [k \in 0..(SweepCount - 1) |->
                        SweepMask(time, arrival_time, signal_width, k)]
           IN  /\ \A k \in 0..(SweepCount - 2) : Subset(M[k], M[k + 1])
               /\ Subset(M[0], region_of_interest_indeces)
               /\ Subset(region_of_interest_indeces, M[SweepCount - 1])
        /\ \A r1, r2 \in roi_list : Subset(r1, r2) \/ Subset(r2, r1)
        /\ SweepRuns
        /\ Cardinality(roi_list) >= 1
        /\ Cardinality(roi_list) <= 100

\* a sample between 3.5 and 4.5 widths from the peak: two masks at least
C9_Witness ==
    /\ pc = "return"
    /\ signal_width.n > 0
    /\ Cardinality(roi_list) >= 2
    /\ \E i \in Indices :
          /\ ~region_of_interest_indeces[i]
          /\ \E r \in roi_list : r[i]

\* C10: for a fitted width > 0 the left noise slice is disjoint from the
\* region of interest, lies in the background, and each of its samples is
\* earlier than every sample of the region of interest.
C10_LeftSliceIsBackground ==
    (Estimated /\ signal_width.n > 0) =>
        /\ Len(roi_left) = Len(time)
        /\ \A i \in Indices :
              roi_left[i] <=>
                  (RLt(Below(R(21, 2)), T(i)) /\ RLt(T(i), Below(R(7, 2))))
        /\ \A i \in Indices :
              roi_left[i] =>
                  /\ ~region_of_interest_indeces[i]
                  /\ \E j \in 1..Len(time_background) :
                        time_background[j] = time[i]
                  /\ \A j \in 1..Len(time_of_interest) :
                        time[i].v < time_of_interest[j].v

C10_Witness ==
    /\ pc = "return"
    /\ signal_width.n > 0
    /\ ~Empty(roi_left)
    /\ Len(time_of_interest) >= 2

====
